---- MODULE Spec2Model ----
(***************************************************************************)
(* Model of the devnet commands of the co-processor CLI                    *)
(* (src/src/commands/devnet.rs): the repository synchronizer               *)
(* clone_coprocessor_repo with check_git_status, pull_latest_changes and   *)
(* update_submodules (streamed child process, two relay threads, polling   *)
(* loop), and the lifecycle commands start_devnet and stop_devnet with     *)
(* build_container and pull_container, and the reset command reset_devnet. *)
(*                                                                         *)
(* Every external program is a child process whose exit status and output  *)
(* are chosen by the environment.  One run of the CLI is one lifecycle     *)
(* action; the filesystem state of the checkout persists between runs.     *)
(***************************************************************************)
EXTENDS Integers, Sequences, FiniteSets

(* ------------------------------ bounds --------------------------------- *)

\* `while start.elapsed().as_secs() < 30000` (devnet.rs:228), scaled down:
\* the loop bound in seconds of the model.
MaxDuration == 15

\* Lines the streamed child process writes in all, to either stream.
MaxLines == 3

\* Lines an operating-system pipe holds before the writer blocks.
PipeCap == 2

\* Length in bytes of the stderr a container command leaves behind.
MaxStderrLen == 1

(* ------------------------- program constants --------------------------- *)

\* thread::sleep(time::Duration::from_secs(5))
PollInterval == 5

\* Bytes a captured stderr is made of: 'n', and the two bytes of U+00E9.
Bytes == {110, 195, 169}

\* Every byte sequence of length at most n.
RECURSIVE ByteSeqs(_)
ByteSeqs(n) ==
    IF n = 0 THEN {<<>>}
    ELSE LET shorter == ByteSeqs(n - 1)
         IN  shorter \cup {Append(s, b) : s \in shorter, b \in Bytes}

Stderrs == ByteSeqs(MaxStderrLen)

\* The external commands and the filesystem step of one lifecycle action.
Steps == {"mkdir", "status", "pull_origin_main", "clone", "submodule",
          "build", "pull", "up", "down", "remove_dir"}

ContainerCmds == {"build", "pull", "up", "down"}

(* ------------------------------ state ---------------------------------- *)

VARIABLES
    action,     \* the lifecycle action of this run: "none", "Start", "Stop",
                \* "Reset"
    pc,         \* position of the main thread
    dirExists,  \* ~/.cartesi-coprocessor-repo exists
    gitExists,  \* ~/.cartesi-coprocessor-repo/.git exists
    submods,    \* a recursive submodule update has succeeded on the checkout
    touched,    \* the checkout was written to during this run
    atStart,    \* <<dirExists, gitExists, submods>> when this run entered
                \* clone_coprocessor_repo
    prevRes,    \* the previous run's clone_coprocessor_repo returned Some(path)
    issued,     \* the steps performed so far in this run, in order
    exitOk,     \* step -> "none" | "ok" | "fail"
    child,      \* the buffered child process the main thread waits on
    statusText, \* stdout of `git status`: "none" | "behind" | "uptodate"
    syncRes,    \* result of clone_coprocessor_repo: "none" | "Some" | "None"
    report,     \* the final message of the action: "none" | "started" |
                \* "stopped" | "start_failed" | "stop_failed" | "clone_failed" |
                \* "reset" | "reset_failed"
    diag,       \* the text printed after a start_failed / stop_failed message
    errBytes,   \* the captured stderr that message was made from
    proc,       \* the streamed child: "none" | "running" | "ok" | "fail"
    elapsed,    \* seconds since `start` as the polling loop sees them
    exitAt,     \* second at which the streamed child exited, -1 before
    pollRes,    \* how update_submodules returned: "none" | "Success" |
                \* "Failure" | "TimedOut" (true, false, false after the loop)
    retAt,      \* second at which update_submodules returned, -1 before
    outPipe,    \* lines in the child's stdout pipe
    errPipe,    \* lines in the child's stderr pipe
    outN,       \* lines the child has written to stdout
    errN,       \* lines the child has written to stderr
    outT,       \* stdout relay thread: "none" | "run" | "done"
    errT,       \* stderr relay thread: "none" | "run" | "done"
    infoLog,    \* lines printed with the GIT:: tag, in order
    warnLog     \* lines printed with the GIT::NOTE:: / GIT::ERROR:: tags

fsVars    == <<dirExists, gitExists, submods, touched, atStart, prevRes>>
cmdVars   == <<issued, exitOk, child, statusText, syncRes>>
endVars   == <<report, diag, errBytes>>
pollVars  == <<elapsed, pollRes, retAt>>
procVars  == <<proc, exitAt, outPipe, errPipe, outN, errN>>
relayVars == <<outT, errT, infoLog, warnLog>>
vars == <<action, pc, fsVars, cmdVars, endVars, pollVars, procVars, relayVars>>

(* ------------------------- pure functions ------------------------------ *)

\* String::from_utf8_lossy over one- and two-byte sequences: an ASCII byte
\* is itself, a lead byte followed by a continuation byte is one scalar,
\* every other byte becomes U+FFFD REPLACEMENT CHARACTER (65533).
RECURSIVE from_utf8_lossy(_)
from_utf8_lossy(b) ==
    IF b = <<>> THEN <<>>
    ELSE IF b[1] < 128 THEN <<b[1]>> \o from_utf8_lossy(Tail(b))
    ELSE IF /\ b[1] >= 194 /\ b[1] <= 223
            /\ Len(b) >= 2 /\ b[2] >= 128 /\ b[2] <= 191
         THEN <<(b[1] - 192) * 64 + (b[2] - 128)>> \o from_utf8_lossy(Tail(Tail(b)))
    ELSE <<65533>> \o from_utf8_lossy(Tail(b))

\* The bytes eprintln! writes for a text (UTF-8 encoding of its scalars).
RECURSIVE utf8_bytes(_)
utf8_bytes(t) ==
    IF t = <<>> THEN <<>>
    ELSE LET c == t[1]
             enc == IF c < 128 THEN <<c>>
                    ELSE IF c < 2048 THEN <<192 + (c \div 64), 128 + (c % 64)>>
                    ELSE <<224 + (c \div 4096), 128 + ((c \div 64) % 64), 128 + (c % 64)>>
         IN  enc \o utf8_bytes(Tail(t))

(* ------------------------------ helpers -------------------------------- *)

\* The single pass/fail outcome of the action, from its final message.
Outcome ==
    CASE report \in {"started", "stopped", "reset"} -> "Done"
      [] report \in {"start_failed", "stop_failed", "clone_failed",
                     "reset_failed"} -> "Failed"
      [] OTHER -> "none"

NoExit == [s \in Steps |-> "none"]

\* Command::new(..).spawn() of a buffered child.
Spawn(c, next) ==
    /\ child = "none"
    /\ child' = c
    /\ issued' = Append(issued, c)
    /\ pc' = next
    /\ UNCHANGED <<exitOk, statusText, syncRes>>

Init ==
    /\ action = "none"
    /\ pc = "idle"
    /\ dirExists \in BOOLEAN
    /\ gitExists \in BOOLEAN
    /\ gitExists => dirExists
    /\ submods \in BOOLEAN
    /\ submods => gitExists
    /\ touched = FALSE
    /\ atStart = <<dirExists, gitExists, submods>>
    /\ prevRes = FALSE
    /\ issued = <<>>
    /\ exitOk = NoExit
    /\ child = "none"
    /\ statusText = "none"
    /\ syncRes = "none"
    /\ report = "none"
    /\ diag = <<>>
    /\ errBytes = <<>>
    /\ proc = "none"
    /\ elapsed = 0
    /\ exitAt = -1
    /\ pollRes = "none"
    /\ retAt = -1
    /\ outPipe = <<>>
    /\ errPipe = <<>>
    /\ outN = 0
    /\ errN = 0
    /\ outT = "none"
    /\ errT = "none"
    /\ infoLog = <<>>
    /\ warnLog = <<>>

(* --------------------------- main.rs dispatch -------------------------- *)

\* Commands::StartDevnet => start_devnet(): the call of clone_coprocessor_repo.
start_devnet ==
    /\ pc = "idle"
    /\ action' = "Start"
    /\ pc' = "ccr_exists"
    /\ atStart' = <<dirExists, gitExists, submods>>
    /\ touched' = FALSE
    /\ UNCHANGED <<dirExists, gitExists, submods, prevRes>>
    /\ UNCHANGED <<cmdVars, endVars, pollVars, procVars, relayVars>>

\* Commands::StopDevnet => stop_devnet(): the call of clone_coprocessor_repo.
stop_devnet ==
    /\ pc = "idle"
    /\ action' = "Stop"
    /\ pc' = "ccr_exists"
    /\ atStart' = <<dirExists, gitExists, submods>>
    /\ touched' = FALSE
    /\ UNCHANGED <<dirExists, gitExists, submods, prevRes>>
    /\ UNCHANGED <<cmdVars, endVars, pollVars, procVars, relayVars>>

(* ------------------------------ reset_devnet --------------------------- *)

\* A reset that keeps the checkout: it goes to clone_coprocessor_repo
\* without deleting anything.
reset_devnet_no_delete ==
    /\ pc = "idle"
    /\ action' = "Reset"
    /\ pc' = "ccr_exists"
    /\ atStart' = <<dirExists, gitExists, submods>>
    /\ touched' = FALSE
    /\ UNCHANGED <<dirExists, gitExists, submods, prevRes>>
    /\ UNCHANGED <<cmdVars, endVars, pollVars, procVars, relayVars>>

\* Commands::ResetDevnet => reset_devnet(): ResettingFiles, the deletion of
\* the whole checkout directory when there is one, then the call of
\* clone_coprocessor_repo.  A deletion that fails ends the action Failed and
\* may have removed part of the directory.
reset_devnet ==
    /\ pc = "idle"
    /\ action' = "Reset"
    /\ IF dirExists
       THEN \E ok \in BOOLEAN, partial \in BOOLEAN :
            /\ issued' = Append(issued, "remove_dir")
            /\ exitOk' = [exitOk EXCEPT !["remove_dir"] = IF ok THEN "ok" ELSE "fail"]
            /\ dirExists' = ~ok
            /\ gitExists' = (gitExists /\ ~ok /\ ~partial)
            /\ submods' = (submods /\ ~ok /\ ~partial)
            /\ touched' = (ok \/ (partial /\ gitExists))
            /\ report' = IF ok THEN report ELSE "reset_failed"
            /\ pc' = IF ok THEN "ccr_exists" ELSE "exit"
       ELSE /\ pc' = "ccr_exists"
            /\ touched' = FALSE
            /\ UNCHANGED <<dirExists, gitExists, submods, issued, exitOk, report>>
    /\ atStart' = <<dirExists', gitExists', submods'>>
    /\ UNCHANGED <<prevRes, child, statusText, syncRes, diag, errBytes>>
    /\ UNCHANGED <<pollVars, procVars, relayVars>>

\* Syncing -> Done / Failed: the result of clone_coprocessor_repo is the
\* result of the reset.
reset_devnet_match ==
    /\ pc = "match_path"
    /\ action = "Reset"
    /\ report' = IF syncRes = "Some" THEN "reset" ELSE "clone_failed"
    /\ pc' = "exit"
    /\ UNCHANGED <<action, fsVars, cmdVars, diag, errBytes, pollVars, procVars, relayVars>>

(* ----------------------- clone_coprocessor_repo ------------------------ *)

\* The directory check without the early return: a failed create_dir_all is
\* only printed.
clone_coprocessor_repo_exists_no_return ==
    /\ pc = "ccr_exists"
    /\ IF dirExists
       THEN /\ UNCHANGED <<dirExists, touched, issued, exitOk>>
       ELSE \E ok \in BOOLEAN :
            /\ issued' = Append(issued, "mkdir")
            /\ exitOk' = [exitOk EXCEPT !["mkdir"] = IF ok THEN "ok" ELSE "fail"]
            /\ dirExists' = ok
            /\ touched' = (touched \/ ok)
    /\ pc' = "ccr_git_dir"
    /\ UNCHANGED <<action, gitExists, submods, atStart, prevRes, child, statusText, syncRes>>
    /\ UNCHANGED <<endVars, pollVars, procVars, relayVars>>

\* if !copro_path.exists() { fs::create_dir_all(..) }: failure returns None.
clone_coprocessor_repo_exists ==
    /\ pc = "ccr_exists"
    /\ IF dirExists
       THEN /\ pc' = "ccr_git_dir"
            /\ UNCHANGED <<dirExists, touched, issued, exitOk, syncRes>>
       ELSE \E ok \in BOOLEAN :
            /\ issued' = Append(issued, "mkdir")
            /\ exitOk' = [exitOk EXCEPT !["mkdir"] = IF ok THEN "ok" ELSE "fail"]
            /\ dirExists' = ok
            /\ touched' = (touched \/ ok)
            /\ syncRes' = IF ok THEN syncRes ELSE "None"
            /\ pc' = IF ok THEN "ccr_git_dir" ELSE "match_path"
    /\ UNCHANGED <<action, gitExists, submods, atStart, prevRes, child, statusText>>
    /\ UNCHANGED <<endVars, pollVars, procVars, relayVars>>

\* if git_dir.exists() { check_git_status(..); return Some(path) } else clone.
clone_coprocessor_repo_git_dir ==
    /\ pc = "ccr_git_dir"
    /\ pc' = IF gitExists THEN "cgs_spawn" ELSE "ccr_clone_spawn"
    /\ UNCHANGED <<action, fsVars, cmdVars, endVars, pollVars, procVars, relayVars>>

\* Command::new("git").arg("clone")...spawn()
clone_coprocessor_repo_clone_spawn ==
    /\ pc = "ccr_clone_spawn"
    /\ Spawn("clone", "ccr_clone_wait")
    /\ UNCHANGED <<action, fsVars, endVars, pollVars, procVars, relayVars>>

\* A clone whose failure branch rolls back: it removes the target directory.
clone_coprocessor_repo_clone_wait_rollback ==
    /\ pc = "ccr_clone_wait"
    /\ child = "clone"
    /\ child' = "none"
    /\ \E ok \in BOOLEAN :
        /\ exitOk' = [exitOk EXCEPT !["clone"] = IF ok THEN "ok" ELSE "fail"]
        /\ gitExists' = ok
        /\ dirExists' = ok
        /\ touched' = TRUE
        /\ syncRes' = IF ok THEN syncRes ELSE "None"
        /\ pc' = IF ok THEN "us_spawn" ELSE "match_path"
    /\ UNCHANGED <<action, submods, atStart, prevRes, issued, statusText>>
    /\ UNCHANGED <<endVars, pollVars, procVars, relayVars>>

\* .wait_with_output() of the clone and the branch on clone_status.
\* A clone that succeeds leaves the metadata directory; one that fails may
\* leave a partial one behind.
clone_coprocessor_repo_clone_wait ==
    /\ pc = "ccr_clone_wait"
    /\ child = "clone"
    /\ child' = "none"
    /\ \E ok \in BOOLEAN, partial \in BOOLEAN :
        /\ exitOk' = [exitOk EXCEPT !["clone"] = IF ok THEN "ok" ELSE "fail"]
        /\ gitExists' = (ok \/ partial)
        /\ touched' = (touched \/ ok \/ partial)
        /\ syncRes' = IF ok THEN syncRes ELSE "None"
        /\ pc' = IF ok THEN "us_spawn" ELSE "match_path"
    /\ UNCHANGED <<action, dirExists, submods, atStart, prevRes, issued, statusText>>
    /\ UNCHANGED <<endVars, pollVars, procVars, relayVars>>

\* The match with its arms exchanged: Some(path) on false, None on true.
clone_coprocessor_repo_submodules_ret_swapped ==
    /\ pc = "ccr_submod_ret"
    /\ syncRes' = IF pollRes = "Success" THEN "None" ELSE "Some"
    /\ pc' = "match_path"
    /\ elapsed' = 0
    /\ retAt' = -1
    /\ exitAt' = -1
    /\ UNCHANGED <<action, fsVars, issued, exitOk, child, statusText, endVars, pollRes>>
    /\ UNCHANGED <<proc, outPipe, errPipe, outN, errN, relayVars>>

\* match update_submodules(path.clone()) { true => Some(path), false => None }
clone_coprocessor_repo_submodules_ret ==
    /\ pc = "ccr_submod_ret"
    /\ syncRes' = IF pollRes = "Success" THEN "Some" ELSE "None"
    /\ pc' = "match_path"
    /\ elapsed' = 0
    /\ retAt' = -1
    /\ exitAt' = -1
    /\ UNCHANGED <<action, fsVars, issued, exitOk, child, statusText, endVars, pollRes>>
    /\ UNCHANGED <<proc, outPipe, errPipe, outN, errN, relayVars>>

(* --------------------------- check_git_status -------------------------- *)

\* Command::new("git").arg("status")...spawn()
check_git_status_spawn ==
    /\ pc = "cgs_spawn"
    /\ Spawn("status", "cgs_wait")
    /\ UNCHANGED <<action, fsVars, endVars, pollVars, procVars, relayVars>>

\* The status query without the test of its exit status: pull whenever the
\* stdout contains the marker.
check_git_status_wait_unchecked_exit ==
    /\ pc = "cgs_wait"
    /\ child = "status"
    /\ child' = "none"
    /\ \E ok \in BOOLEAN, behind \in BOOLEAN :
        /\ exitOk' = [exitOk EXCEPT !["status"] = IF ok THEN "ok" ELSE "fail"]
        /\ statusText' = IF behind THEN "behind" ELSE "uptodate"
        /\ IF behind
           THEN /\ pc' = "plc_spawn"
                /\ UNCHANGED syncRes
           ELSE /\ pc' = "match_path"
                /\ syncRes' = "Some"
    /\ UNCHANGED <<action, fsVars, issued, endVars, pollVars, procVars, relayVars>>

\* The status query without the test of the marker: pull whenever the
\* query succeeded.
check_git_status_wait_always_pull ==
    /\ pc = "cgs_wait"
    /\ child = "status"
    /\ child' = "none"
    /\ \E ok \in BOOLEAN, behind \in BOOLEAN :
        /\ exitOk' = [exitOk EXCEPT !["status"] = IF ok THEN "ok" ELSE "fail"]
        /\ statusText' = IF behind THEN "behind" ELSE "uptodate"
        /\ IF ok
           THEN /\ pc' = "plc_spawn"
                /\ UNCHANGED syncRes
           ELSE /\ pc' = "match_path"
                /\ syncRes' = "Some"
    /\ UNCHANGED <<action, fsVars, issued, endVars, pollVars, procVars, relayVars>>

\* .wait_with_output() of the status query: pull when it succeeded and its
\* stdout contains "Your branch is behind 'origin/main'"; in every case the
\* caller then returns Some(path).
check_git_status_wait ==
    /\ pc = "cgs_wait"
    /\ child = "status"
    /\ child' = "none"
    /\ \E ok \in BOOLEAN, behind \in BOOLEAN :
        /\ exitOk' = [exitOk EXCEPT !["status"] = IF ok THEN "ok" ELSE "fail"]
        /\ statusText' = IF behind THEN "behind" ELSE "uptodate"
        /\ IF ok /\ behind
           THEN /\ pc' = "plc_spawn"
                /\ UNCHANGED syncRes
           ELSE /\ pc' = "match_path"
                /\ syncRes' = "Some"
    /\ UNCHANGED <<action, fsVars, issued, endVars, pollVars, procVars, relayVars>>

(* -------------------------- pull_latest_changes ------------------------ *)

\* Command::new("git").arg("pull").arg("origin").arg("main")...spawn()
pull_latest_changes_spawn ==
    /\ pc = "plc_spawn"
    /\ Spawn("pull_origin_main", "plc_wait")
    /\ UNCHANGED <<action, fsVars, endVars, pollVars, procVars, relayVars>>

\* .wait_with_output() of the pull; success or failure is only printed, and
\* clone_coprocessor_repo returns Some(path).
pull_latest_changes_wait ==
    /\ pc = "plc_wait"
    /\ child = "pull_origin_main"
    /\ child' = "none"
    /\ \E ok \in BOOLEAN :
        /\ exitOk' = [exitOk EXCEPT !["pull_origin_main"] = IF ok THEN "ok" ELSE "fail"]
        /\ touched' = (touched \/ ok)
    /\ syncRes' = "Some"
    /\ pc' = "match_path"
    /\ UNCHANGED <<action, dirExists, gitExists, submods, atStart, prevRes>>
    /\ UNCHANGED <<issued, statusText, endVars, pollVars, procVars, relayVars>>

(* --------------------------- update_submodules ------------------------- *)

\* Command::new("git").arg("submodule").arg("update")...spawn(), both
\* streams piped.
update_submodules_spawn ==
    /\ pc = "us_spawn"
    /\ proc' = "running"
    /\ issued' = Append(issued, "submodule")
    /\ pc' = "us_stdout_thread"
    /\ UNCHANGED <<action, fsVars, exitOk, child, statusText, syncRes, endVars>>
    /\ UNCHANGED <<pollVars, exitAt, outPipe, errPipe, outN, errN, relayVars>>

\* thread::spawn of the stdout reader.
update_submodules_stdout_thread ==
    /\ pc = "us_stdout_thread"
    /\ outT' = "run"
    /\ pc' = "us_stderr_thread"
    /\ UNCHANGED <<action, fsVars, cmdVars, endVars, pollVars, procVars>>
    /\ UNCHANGED <<errT, infoLog, warnLog>>

\* let start = time::Instant::now(); thread::spawn of the stderr reader.
update_submodules_stderr_thread ==
    /\ pc = "us_stderr_thread"
    /\ elapsed' = 0
    /\ errT' = "run"
    /\ pc' = "us_poll"
    /\ UNCHANGED <<action, fsVars, cmdVars, endVars, pollRes, retAt, procVars>>
    /\ UNCHANGED <<outT, infoLog, warnLog>>

\* The loop with a kill of the child once the bound is reached.
update_submodules_poll_kill_on_timeout ==
    /\ pc = "us_poll"
    /\ IF elapsed < MaxDuration
       THEN IF proc \in {"ok", "fail"}
            THEN /\ pollRes' = IF proc = "ok" THEN "Success" ELSE "Failure"
                 /\ retAt' = elapsed
                 /\ pc' = "ccr_submod_ret"
                 /\ UNCHANGED proc
            ELSE /\ pc' = "us_sleep"
                 /\ UNCHANGED <<pollRes, retAt, proc>>
       ELSE /\ pollRes' = "TimedOut"
            /\ retAt' = elapsed
            /\ pc' = "ccr_submod_ret"
            /\ proc' = IF proc = "running" THEN "fail" ELSE proc
    /\ UNCHANGED <<action, fsVars, cmdVars, endVars, elapsed, relayVars>>
    /\ UNCHANGED <<exitAt, outPipe, errPipe, outN, errN>>

\* The loop without the try_wait() test: it sleeps until the bound.
update_submodules_poll_no_try_wait ==
    /\ pc = "us_poll"
    /\ IF elapsed < MaxDuration
       THEN /\ pc' = "us_sleep"
            /\ UNCHANGED <<pollRes, retAt>>
       ELSE /\ pollRes' = IF proc = "ok" THEN "Success"
                          ELSE IF proc = "fail" THEN "Failure" ELSE "TimedOut"
            /\ retAt' = elapsed
            /\ pc' = "ccr_submod_ret"
    /\ UNCHANGED <<action, fsVars, cmdVars, endVars, elapsed, procVars, relayVars>>

\* One evaluation of the loop condition and, inside the loop, of try_wait():
\* return true / false on an exited child, go to sleep on a running one,
\* fall out of the loop and return false once the bound is reached.
update_submodules_poll ==
    /\ pc = "us_poll"
    /\ IF elapsed < MaxDuration
       THEN IF proc \in {"ok", "fail"}
            THEN /\ pollRes' = IF proc = "ok" THEN "Success" ELSE "Failure"
                 /\ retAt' = elapsed
                 /\ pc' = "ccr_submod_ret"
            ELSE /\ pc' = "us_sleep"
                 /\ UNCHANGED <<pollRes, retAt>>
       ELSE /\ pollRes' = "TimedOut"
            /\ retAt' = elapsed
            /\ pc' = "ccr_submod_ret"
    /\ UNCHANGED <<action, fsVars, cmdVars, endVars, elapsed, procVars, relayVars>>

\* thread::sleep(time::Duration::from_secs(5)); the sleep is taken to last
\* exactly the interval.
update_submodules_sleep ==
    /\ pc = "us_sleep"
    /\ elapsed' = elapsed + PollInterval
    /\ pc' = "us_poll"
    /\ UNCHANGED <<action, fsVars, cmdVars, endVars, pollRes, retAt, procVars, relayVars>>

\* A stdout reader that takes the newest line of the pipe, not the oldest.
stdout_relay_line_newest_first ==
    /\ outT = "run"
    /\ outPipe # <<>>
    /\ outPipe' = SubSeq(outPipe, 1, Len(outPipe) - 1)
    /\ infoLog' = IF outPipe[Len(outPipe)].ok
                  THEN Append(infoLog, outPipe[Len(outPipe)].id) ELSE infoLog
    /\ UNCHANGED <<action, pc, fsVars, cmdVars, endVars, pollVars>>
    /\ UNCHANGED <<proc, exitAt, errPipe, outN, errN, outT, errT, warnLog>>

\* The stdout reader takes one line: an Ok line is printed with the GIT::
\* tag, an Err line is skipped.
stdout_relay_line ==
    /\ outT = "run"
    /\ outPipe # <<>>
    /\ outPipe' = Tail(outPipe)
    /\ infoLog' = IF Head(outPipe).ok THEN Append(infoLog, Head(outPipe).id) ELSE infoLog
    /\ UNCHANGED <<action, pc, fsVars, cmdVars, endVars, pollVars>>
    /\ UNCHANGED <<proc, exitAt, errPipe, outN, errN, outT, errT, warnLog>>

\* stdout.lines() ends: the pipe is empty and its write end is closed.
stdout_relay_eof ==
    /\ outT = "run"
    /\ outPipe = <<>>
    /\ proc \in {"ok", "fail"}
    /\ outT' = "done"
    /\ UNCHANGED <<action, pc, fsVars, cmdVars, endVars, pollVars, procVars>>
    /\ UNCHANGED <<errT, infoLog, warnLog>>

\* A stderr reader that starts only when the stdout reader has finished:
\* one path draining the two streams one after the other.
stderr_relay_line_after_stdout ==
    /\ errT = "run"
    /\ outT = "done"
    /\ errPipe # <<>>
    /\ errPipe' = Tail(errPipe)
    /\ warnLog' = Append(warnLog, [id |-> Head(errPipe).id,
                                   tag |-> IF Head(errPipe).ok THEN "NOTE" ELSE "ERROR"])
    /\ UNCHANGED <<action, pc, fsVars, cmdVars, endVars, pollVars>>
    /\ UNCHANGED <<proc, exitAt, outPipe, outN, errN, outT, errT, infoLog>>

\* The stderr reader takes one line: an Ok line is printed with the
\* GIT::NOTE:: tag, an Err line with the GIT::ERROR:: tag.
stderr_relay_line ==
    /\ errT = "run"
    /\ errPipe # <<>>
    /\ errPipe' = Tail(errPipe)
    /\ warnLog' = Append(warnLog, [id |-> Head(errPipe).id,
                                   tag |-> IF Head(errPipe).ok THEN "NOTE" ELSE "ERROR"])
    /\ UNCHANGED <<action, pc, fsVars, cmdVars, endVars, pollVars>>
    /\ UNCHANGED <<proc, exitAt, outPipe, outN, errN, outT, errT, infoLog>>

\* stderr.lines() ends: the pipe is empty and its write end is closed.
stderr_relay_eof ==
    /\ errT = "run"
    /\ errPipe = <<>>
    /\ proc \in {"ok", "fail"}
    /\ errT' = "done"
    /\ UNCHANGED <<action, pc, fsVars, cmdVars, endVars, pollVars, procVars>>
    /\ UNCHANGED <<outT, infoLog, warnLog>>

(* ------------------ the streamed child (git submodule) ----------------- *)

\* The child writes its next line to stdout; it blocks while the pipe is full.
git_submodule_write_stdout ==
    /\ proc = "running"
    /\ outN + errN < MaxLines
    /\ Len(outPipe) < PipeCap
    /\ \E ok \in BOOLEAN : outPipe' = Append(outPipe, [id |-> outN + 1, ok |-> ok])
    /\ outN' = outN + 1
    /\ UNCHANGED <<action, pc, fsVars, cmdVars, endVars, pollVars>>
    /\ UNCHANGED <<proc, exitAt, errPipe, errN, relayVars>>

\* The child writes its next line to stderr; it blocks while the pipe is full.
git_submodule_write_stderr ==
    /\ proc = "running"
    /\ outN + errN < MaxLines
    /\ Len(errPipe) < PipeCap
    /\ \E ok \in BOOLEAN : errPipe' = Append(errPipe, [id |-> errN + 1, ok |-> ok])
    /\ errN' = errN + 1
    /\ UNCHANGED <<action, pc, fsVars, cmdVars, endVars, pollVars>>
    /\ UNCHANGED <<proc, exitAt, outPipe, outN, relayVars>>

\* The child exits: at the current second, or at some second of the sleep
\* the polling loop is in.
git_submodule_exit ==
    /\ proc = "running"
    /\ \E ok \in BOOLEAN :
        /\ proc' = IF ok THEN "ok" ELSE "fail"
        /\ exitOk' = [exitOk EXCEPT !["submodule"] = IF ok THEN "ok" ELSE "fail"]
        /\ submods' = (submods \/ ok)
    /\ IF pc = "us_sleep"
       THEN \E d \in 1 .. PollInterval : exitAt' = elapsed + d
       ELSE exitAt' = elapsed
    /\ touched' = TRUE
    /\ UNCHANGED <<action, pc, dirExists, gitExists, atStart, prevRes>>
    /\ UNCHANGED <<issued, child, statusText, syncRes, endVars, pollVars>>
    /\ UNCHANGED <<outPipe, errPipe, outN, errN, relayVars>>

(* ------------------------------ start_devnet --------------------------- *)

\* The match without its None arm: the build follows in every case.
start_devnet_match_no_none_arm ==
    /\ pc = "match_path"
    /\ action = "Start"
    /\ pc' = "bc_spawn"
    /\ UNCHANGED <<action, fsVars, cmdVars, endVars, pollVars, procVars, relayVars>>

\* match coprocessor_path: Some(path) goes on to build_container, None
\* prints the clone failure and returns.
start_devnet_match ==
    /\ pc = "match_path"
    /\ action = "Start"
    /\ IF syncRes = "Some"
       THEN pc' = "bc_spawn" /\ UNCHANGED report
       ELSE pc' = "exit" /\ report' = "clone_failed"
    /\ UNCHANGED <<action, fsVars, cmdVars, diag, errBytes, pollVars, procVars, relayVars>>

\* Command::new("docker")...arg("build")...spawn()
build_container_spawn ==
    /\ pc = "bc_spawn"
    /\ Spawn("build", "bc_wait")
    /\ UNCHANGED <<action, fsVars, endVars, pollVars, procVars, relayVars>>

\* A build that is spawned again when it failed.
build_container_wait_retry ==
    /\ pc = "bc_wait"
    /\ child = "build"
    /\ child' = "none"
    /\ \E ok \in BOOLEAN :
        /\ exitOk' = [exitOk EXCEPT !["build"] = IF ok THEN "ok" ELSE "fail"]
        /\ pc' = IF ok THEN "pc_spawn" ELSE "bc_spawn"
    /\ UNCHANGED <<action, fsVars, issued, statusText, syncRes, endVars>>
    /\ UNCHANGED <<pollVars, procVars, relayVars>>

\* .wait_with_output() of the build; both branches only print and return.
build_container_wait ==
    /\ pc = "bc_wait"
    /\ child = "build"
    /\ child' = "none"
    /\ \E ok \in BOOLEAN : exitOk' = [exitOk EXCEPT !["build"] = IF ok THEN "ok" ELSE "fail"]
    /\ pc' = "pc_spawn"
    /\ UNCHANGED <<action, fsVars, issued, statusText, syncRes, endVars>>
    /\ UNCHANGED <<pollVars, procVars, relayVars>>

\* Command::new("docker")...arg("pull")...spawn()
pull_container_spawn ==
    /\ pc = "pc_spawn"
    /\ Spawn("pull", "pc_wait")
    /\ UNCHANGED <<action, fsVars, endVars, pollVars, procVars, relayVars>>

\* .wait_with_output() of the image pull; both branches only print and return.
pull_container_wait ==
    /\ pc = "pc_wait"
    /\ child = "pull"
    /\ child' = "none"
    /\ \E ok \in BOOLEAN : exitOk' = [exitOk EXCEPT !["pull"] = IF ok THEN "ok" ELSE "fail"]
    /\ pc' = "up_spawn"
    /\ UNCHANGED <<action, fsVars, issued, statusText, syncRes, endVars>>
    /\ UNCHANGED <<pollVars, procVars, relayVars>>

\* Command::new("docker")...arg("up").arg("--wait").arg("-d")...spawn()
start_devnet_up_spawn ==
    /\ pc = "up_spawn"
    /\ Spawn("up", "up_wait")
    /\ UNCHANGED <<action, fsVars, endVars, pollVars, procVars, relayVars>>

\* .wait_with_output() of the bring-up and the final message.
start_devnet_up_wait ==
    /\ pc = "up_wait"
    /\ child = "up"
    /\ child' = "none"
    /\ \E ok \in BOOLEAN, e \in Stderrs :
        /\ exitOk' = [exitOk EXCEPT !["up"] = IF ok THEN "ok" ELSE "fail"]
        /\ IF ok
           THEN /\ report' = "started"
                /\ UNCHANGED <<diag, errBytes>>
           ELSE /\ report' = "start_failed"
                /\ errBytes' = e
                /\ diag' = from_utf8_lossy(e)
    /\ pc' = "exit"
    /\ UNCHANGED <<action, fsVars, issued, statusText, syncRes>>
    /\ UNCHANGED <<pollVars, procVars, relayVars>>

(* ------------------------------- stop_devnet --------------------------- *)

\* match coprocessor_path: Some(path) goes on to the tear-down, None prints
\* the clone failure and returns.
stop_devnet_match ==
    /\ pc = "match_path"
    /\ action = "Stop"
    /\ IF syncRes = "Some"
       THEN pc' = "down_spawn" /\ UNCHANGED report
       ELSE pc' = "exit" /\ report' = "clone_failed"
    /\ UNCHANGED <<action, fsVars, cmdVars, diag, errBytes, pollVars, procVars, relayVars>>

\* Command::new("docker")...arg("down").arg("-v")...spawn()
stop_devnet_down_spawn ==
    /\ pc = "down_spawn"
    /\ Spawn("down", "down_wait")
    /\ UNCHANGED <<action, fsVars, endVars, pollVars, procVars, relayVars>>

\* The tear-down without the test of its exit status.
stop_devnet_down_wait_unchecked_exit ==
    /\ pc = "down_wait"
    /\ child = "down"
    /\ child' = "none"
    /\ \E ok \in BOOLEAN :
        exitOk' = [exitOk EXCEPT !["down"] = IF ok THEN "ok" ELSE "fail"]
    /\ report' = "stopped"
    /\ pc' = "exit"
    /\ UNCHANGED <<action, fsVars, issued, statusText, syncRes, diag, errBytes>>
    /\ UNCHANGED <<pollVars, procVars, relayVars>>

\* .wait_with_output() of the tear-down and the final message.
stop_devnet_down_wait ==
    /\ pc = "down_wait"
    /\ child = "down"
    /\ child' = "none"
    /\ \E ok \in BOOLEAN, e \in Stderrs :
        /\ exitOk' = [exitOk EXCEPT !["down"] = IF ok THEN "ok" ELSE "fail"]
        /\ IF ok
           THEN /\ report' = "stopped"
                /\ UNCHANGED <<diag, errBytes>>
           ELSE /\ report' = "stop_failed"
                /\ errBytes' = e
                /\ diag' = from_utf8_lossy(e)
    /\ pc' = "exit"
    /\ UNCHANGED <<action, fsVars, issued, statusText, syncRes>>
    /\ UNCHANGED <<pollVars, procVars, relayVars>>

(* ------------------------------ end of a run --------------------------- *)

\* The command returns to main, main returns Ok(()) and the CLI process
\* ends; its threads end with it.  Only the filesystem outlives the run.
main_return ==
    /\ pc = "exit"
    /\ pc' = "idle"
    /\ action' = "none"
    /\ prevRes' = (syncRes = "Some")
    /\ touched' = FALSE
    /\ atStart' = <<dirExists, gitExists, submods>>
    /\ issued' = <<>>
    /\ exitOk' = NoExit
    /\ child' = "none"
    /\ statusText' = "none"
    /\ syncRes' = "none"
    /\ report' = "none"
    /\ diag' = <<>>
    /\ errBytes' = <<>>
    /\ proc' = "none"
    /\ elapsed' = 0
    /\ exitAt' = -1
    /\ pollRes' = "none"
    /\ retAt' = -1
    /\ outPipe' = <<>>
    /\ errPipe' = <<>>
    /\ outN' = 0
    /\ errN' = 0
    /\ outT' = "none"
    /\ errT' = "none"
    /\ infoLog' = <<>>
    /\ warnLog' = <<>>
    /\ UNCHANGED <<dirExists, gitExists, submods>>

Next ==
    \/ start_devnet
    \/ stop_devnet
    \/ reset_devnet
    \/ reset_devnet_match
    \/ clone_coprocessor_repo_exists
    \/ clone_coprocessor_repo_git_dir
    \/ clone_coprocessor_repo_clone_spawn
    \/ clone_coprocessor_repo_clone_wait
    \/ clone_coprocessor_repo_submodules_ret
    \/ check_git_status_spawn
    \/ check_git_status_wait
    \/ pull_latest_changes_spawn
    \/ pull_latest_changes_wait
    \/ update_submodules_spawn
    \/ update_submodules_stdout_thread
    \/ update_submodules_stderr_thread
    \/ update_submodules_poll
    \/ update_submodules_sleep
    \/ stdout_relay_line
    \/ stdout_relay_eof
    \/ stderr_relay_line
    \/ stderr_relay_eof
    \/ git_submodule_write_stdout
    \/ git_submodule_write_stderr
    \/ git_submodule_exit
    \/ start_devnet_match
    \/ build_container_spawn
    \/ build_container_wait
    \/ pull_container_spawn
    \/ pull_container_wait
    \/ start_devnet_up_spawn
    \/ start_devnet_up_wait
    \/ stop_devnet_match
    \/ stop_devnet_down_spawn
    \/ stop_devnet_down_wait
    \/ main_return

Spec == Init /\ [][Next]_vars

\* The two reader threads are operating-system threads of the CLI process:
\* a reader that can take a line, or see the end of its stream, does so.
Fairness ==
    /\ WF_vars(stdout_relay_line)
    /\ WF_vars(stdout_relay_eof)
    /\ WF_vars(stderr_relay_line)
    /\ WF_vars(stderr_relay_eof)

FairSpec == Spec /\ Fairness

(* ------------------------------ properties ----------------------------- *)

Range(q) == {q[i] : i \in DOMAIN q}

Count(q, x) == Cardinality({i \in DOMAIN q : q[i] = x})

IsPrefix(p, q) == Len(p) <= Len(q) /\ p = SubSeq(q, 1, Len(p))

IsContainerCmd(c) == c \in ContainerCmds

SyncCmds == {"status", "pull_origin_main", "clone", "submodule"}

IsSyncStep(c) == c \in SyncCmds \cup {"mkdir"}

\* The steps of clone_coprocessor_repo / the container commands of this run.
SyncPart == SelectSeq(issued, IsSyncStep)
ContainerPart == SelectSeq(issued, IsContainerCmd)

\* clone_coprocessor_repo has returned in this run.
SyncReturned == syncRes # "none"

\* The first instant at or after second t at which the loop polls.
NextPoll(t) == ((t + PollInterval - 1) \div PollInterval) * PollInterval

\* The bytes are the UTF-8 encoding of a text.
IsUtf8(b) == utf8_bytes(from_utf8_lossy(b)) = b /\ 65533 \notin Range(from_utf8_lossy(b))

\* C1: a Start whose `compose build` exits non-zero issues neither
\* `compose pull` nor `compose up` in that action.
C1_BuildFailureStopsStart ==
    (action = "Start" /\ exitOk["build"] = "fail")
        => ("pull" \notin Range(issued) /\ "up" \notin Range(issued))

\* C2 as stated: on a target root that already has the metadata directory,
\* clone_coprocessor_repo never clones, queries the status exactly once, and
\* pulls if and only if the status text contains the behind-upstream marker.
C2_PullIffMarker ==
    (atStart[2] /\ SyncReturned)
        => /\ Count(issued, "clone") = 0
           /\ Count(issued, "status") = 1
           /\ ("pull_origin_main" \in Range(issued)) <=> (statusText = "behind")

\* C2 amended: on a target root that already has the metadata directory,
\* clone_coprocessor_repo never clones, queries the status exactly once, and
\* pulls (once) if and only if the status query exited successfully and its
\* text contains the behind-upstream marker.
C2_PullIffStatusOkAndMarker ==
    (atStart[2] /\ SyncReturned)
        => /\ Count(issued, "clone") = 0
           /\ Count(issued, "status") = 1
           /\ Count(issued, "pull_origin_main") <= 1
           /\ ("pull_origin_main" \in Range(issued))
                <=> (exitOk["status"] = "ok" /\ statusText = "behind")

C2_Witness ==
    /\ atStart[2]
    /\ syncRes = "Some"
    /\ exitOk["status"] = "ok"
    /\ exitOk["pull_origin_main"] # "none"

\* C3: on a target root that does not exist, clone_coprocessor_repo creates
\* the directory, then clones, then updates the submodules, in that order and
\* each only after the one before succeeded; when the directory creation and
\* the clone succeeded and update_submodules returned true, it returns
\* Some(path) and the metadata directory is present.
C3_FreshCloneSequence ==
    ~atStart[1]
        => /\ IsPrefix(SyncPart, <<"mkdir", "clone", "submodule">>)
           /\ "clone" \in Range(issued) => exitOk["mkdir"] = "ok"
           /\ "submodule" \in Range(issued) => exitOk["clone"] = "ok"
           /\ (SyncReturned /\ exitOk["mkdir"] = "ok") => "clone" \in Range(issued)
           /\ (SyncReturned /\ exitOk["clone"] = "ok") => "submodule" \in Range(issued)
           /\ (SyncReturned /\ exitOk["mkdir"] = "ok" /\ exitOk["clone"] = "ok"
                 /\ pollRes = "Success")
                => (syncRes = "Some" /\ dirExists /\ gitExists)

C3_Witness ==
    /\ ~atStart[1]
    /\ SyncPart = <<"mkdir", "clone", "submodule">>
    /\ pollRes = "Success"
    /\ syncRes = "Some"
    /\ gitExists

\* C4: when the previous run's clone_coprocessor_repo returned the checkout
\* and the status text of this run lacks the behind-upstream marker, this run
\* performs no clone and no pull and leaves the checkout as it found it.
C4_SecondCallIdempotent ==
    (prevRes /\ statusText = "uptodate")
        => /\ "clone" \notin Range(issued)
           /\ "pull_origin_main" \notin Range(issued)
           /\ ~touched
           /\ <<dirExists, gitExists, submods>> = atStart

C4_Witness ==
    /\ prevRes
    /\ statusText = "uptodate"
    /\ exitOk["status"] = "ok"
    /\ syncRes = "Some"

\* C5: when update_submodules returns, (a) a child that exited at a second
\* whose next polling instant lies before the bound is reported with its own
\* exit status, at that polling instant; (b) a child that is still running is
\* reported as timed out, at the first polling instant at or after the bound;
\* so the loop never lasts longer than the bound plus one poll interval.
C5_BoundedPoller ==
    (pc = "ccr_submod_ret")
        => /\ (exitAt >= 0 /\ NextPoll(exitAt) < MaxDuration)
                => /\ pollRes = (IF proc = "ok" THEN "Success" ELSE "Failure")
                   /\ retAt = NextPoll(exitAt)
           /\ proc = "running"
                => /\ pollRes = "TimedOut"
                   /\ retAt = NextPoll(MaxDuration)
           /\ retAt < MaxDuration + PollInterval

C5_Witness ==
    /\ pc = "ccr_submod_ret"
    /\ pollRes = "Success"
    /\ exitAt > PollInterval
    /\ retAt = 2 * PollInterval

\* C6: in every reachable state the lines printed on the info channel are
\* in the order the child wrote them to stdout, and the lines printed on the
\* warning channel are exactly the first lines the child wrote to stderr, in
\* the order it wrote them.
C6_RelayOrder ==
    /\ \A i, j \in DOMAIN infoLog : i < j => infoLog[i] < infoLog[j]
    /\ \A i \in DOMAIN infoLog : infoLog[i] >= 1 /\ infoLog[i] <= outN - Len(outPipe)
    /\ \A i \in DOMAIN warnLog : warnLog[i].id = i
    /\ Len(warnLog) + Len(errPipe) = errN
    /\ \A i \in DOMAIN outPipe : outPipe[i].id = outN - Len(outPipe) + i
    /\ \A i \in DOMAIN errPipe : errPipe[i].id = errN - Len(errPipe) + i

C6_Witness ==
    /\ infoLog = <<1, 2>>
    /\ Len(warnLog) = 1

\* C7: a Start that ends with the success message had every step of the
\* action exit successfully (synchronization, build, image pull, bring-up).
C7_StartedOnlyIfAllSucceeded ==
    (action = "Start" /\ Outcome = "Done")
        => \A s \in Steps : exitOk[s] # "fail"

\* C8: when `down -v` exits non-zero in a Stop, the action ends with the
\* stop-failed message and never with the stopped message, and the diagnostic
\* is the text of that command's stderr: its lossy decoding, whose bytes are
\* exactly the captured bytes when these are UTF-8 text.
C8_StopFailureCarriesStderr ==
    (action = "Stop" /\ exitOk["down"] = "fail")
        => /\ report = "stop_failed"
           /\ Outcome = "Failed"
           /\ diag = from_utf8_lossy(errBytes)
           /\ IsUtf8(errBytes) => utf8_bytes(diag) = errBytes

C8_Witness ==
    /\ action = "Stop"
    /\ exitOk["down"] = "fail"
    /\ errBytes = <<110>>
    /\ utf8_bytes(diag) = errBytes

\* C9: when the status query, the pull, the clone or the submodule update
\* exits non-zero, clone_coprocessor_repo returns None and the action ends
\* Failed.
C9_SyncFailureAborts ==
    (\E s \in SyncCmds : exitOk[s] = "fail")
        => /\ SyncReturned => syncRes = "None"
           /\ pc = "exit" => Outcome = "Failed"

\* C10: no container command is issued before clone_coprocessor_repo has
\* returned, nor after it returned None; the container commands of a Start
\* are build, pull, up in this order and those of a Stop the single down;
\* and a command is started only when every earlier step has exited.
C10_StrictlySequential ==
    /\ ContainerPart # <<>> => syncRes = "Some"
    /\ \A i, j \in DOMAIN issued :
            (i < j /\ issued[i] \in ContainerCmds) => issued[j] \in ContainerCmds
    /\ action = "Start" => IsPrefix(ContainerPart, <<"build", "pull", "up">>)
    /\ action = "Stop" => IsPrefix(ContainerPart, <<"down">>)
    /\ \A i, j \in DOMAIN issued :
            (j < i /\ issued[i] \in ContainerCmds) => exitOk[issued[j]] # "none"
    /\ child \in ContainerCmds => proc # "running"
    /\ child # "none" => issued[Len(issued)] = child

C10_Witness ==
    /\ child = "up"
    /\ issued = <<"mkdir", "clone", "submodule", "build", "pull", "up">>

\* C11: a Reset deletes the checkout directory, when there is one, as its
\* first step and clones only after that deletion succeeded, into a target
\* root that is absent; it never reuses a checkout (no status, no pull); a
\* deletion that fails ends the action Failed with nothing else done; a Reset
\* on an absent checkout starts with the creation of the directory; and a
\* Reset whose directory creation, clone and submodule update succeeded ends
\* with the success message.
C11_ResetDeletesBeforeClone ==
    action = "Reset"
        => /\ "remove_dir" \in Range(issued) => issued[1] = "remove_dir"
           /\ "status" \notin Range(issued)
           /\ "pull_origin_main" \notin Range(issued)
           /\ "clone" \in Range(issued)
                => /\ ~atStart[1] /\ ~atStart[2]
                   /\ exitOk["remove_dir"] # "fail"
           /\ exitOk["remove_dir"] = "fail"
                => (issued = <<"remove_dir">> /\ Outcome = "Failed")
           /\ (SyncReturned /\ "remove_dir" \notin Range(issued)) => issued[1] = "mkdir"
           /\ (SyncReturned /\ exitOk["mkdir"] = "ok") => "clone" \in Range(issued)
           /\ (pc = "exit" /\ exitOk["mkdir"] = "ok" /\ exitOk["clone"] = "ok"
                 /\ pollRes = "Success")
                => report = "reset"

C11_Witness ==
    /\ action = "Reset"
    /\ issued = <<"remove_dir", "mkdir", "clone", "submodule">>
    /\ report = "reset"
    /\ gitExists

\* C12: whenever clone_coprocessor_repo returns Some(path), a recursive
\* submodule update has succeeded on the checkout.
C12_ReturnedCheckoutHasSubmodules ==
    syncRes = "Some" => submods

\* C13: update_submodules returns the timed-out false only if the child had
\* not exited before the bound elapsed.
C13_TimedOutOnlyIfNotCompleted ==
    (pc = "ccr_submod_ret" /\ pollRes = "TimedOut")
        => ~(exitAt >= 0 /\ exitAt < MaxDuration)

\* C14: once update_submodules has timed out, clone_coprocessor_repo does
\* not return the checkout, no container command is issued and the action
\* ends Failed; and no step of the main thread, the timed-out return
\* included, changes the state of the child: it is left running.
C14_TimeoutLeavesChildRunning ==
    /\ [](pollRes = "TimedOut"
            => /\ syncRes # "Some"
               /\ ContainerPart = <<>>
               /\ child = "none"
               /\ pc = "match_path" => syncRes = "None"
               /\ pc = "exit" => Outcome = "Failed")
    /\ [][(pollRes' = "TimedOut" /\ pc' # pc /\ pc' # "idle") => proc' = proc]_vars

C14_Witness ==
    /\ pollRes = "TimedOut"
    /\ proc = "running"
    /\ pc = "exit"
    /\ report = "clone_failed"

\* C15: a reader thread with a line in its pipe can always take it, whatever
\* the other pipe holds and wherever the main thread is (asleep or not); a
\* full pipe with a live reader eventually has room again, so the child is
\* not blocked forever on one stream while the other is idle; and a reader
\* whose stream has been closed eventually ends.
C15_RelaysDrainIndependently ==
    /\ []((outT = "run" /\ outPipe # <<>>) => ENABLED stdout_relay_line)
    /\ []((errT = "run" /\ errPipe # <<>>) => ENABLED stderr_relay_line)
    /\ (outT = "run" /\ Len(outPipe) = PipeCap) ~> (Len(outPipe) < PipeCap)
    /\ (errT = "run" /\ Len(errPipe) = PipeCap) ~> (Len(errPipe) < PipeCap)
    /\ (outT = "run" /\ proc \in {"ok", "fail"}) ~> (outT # "run")
    /\ (errT = "run" /\ proc \in {"ok", "fail"}) ~> (errT # "run")

C15_Witness ==
    /\ pc = "us_sleep"
    /\ proc = "running"
    /\ errT = "run"
    /\ Len(errPipe) = PipeCap
    /\ outPipe = <<>>
    /\ infoLog = <<>>

\* C16: every malformed line read from either stream is reported on the
\* warning channel: the stdout lines taken and not printed on the info
\* channel are as many as the warning-channel lines that did not come from
\* stderr.
C16_MalformedLinesReported ==
    (outN - Len(outPipe)) - Len(infoLog) = Len(warnLog) - (errN - Len(errPipe))

\* C17: within one lifecycle action no step is performed twice, whatever
\* the outcomes of the commands.
C17_NoRetry ==
    \A s \in Steps : Count(issued, s) <= 1

C17_Witness ==
    /\ pc = "exit"
    /\ Len(issued) = 6
    /\ exitOk["build"] = "fail"
    /\ exitOk["pull"] = "fail"
    /\ exitOk["up"] = "fail"

\* C18: when the target root does not exist and its creation fails,
\* clone_coprocessor_repo returns None without any of clone, status, pull and
\* submodule update, and the action issues no container command and ends
\* Failed.
C18_CreateDirFailureAborts ==
    exitOk["mkdir"] = "fail"
        => /\ Range(issued) \cap (SyncCmds \cup ContainerCmds) = {}
           /\ syncRes = "None"
           /\ child = "none" /\ proc = "none"
           /\ ~dirExists
           /\ pc \in {"match_path", "exit"}
           /\ pc = "exit" => Outcome = "Failed"

C18_Witness ==
    /\ exitOk["mkdir"] = "fail"
    /\ pc = "exit"
    /\ report = "clone_failed"

\* C19: no step from the entry of clone_coprocessor_repo to the end of the
\* run removes the target directory, the metadata directory or the result of
\* a submodule update; and clone_coprocessor_repo clones if and only if the
\* metadata directory was absent when it was entered (and the target
\* directory was there or could be created).
C19_NoRollback ==
    /\ [][pc # "idle" => /\ dirExists => dirExists'
                         /\ gitExists => gitExists'
                         /\ submods => submods']_vars
    /\ [](SyncReturned
            => (("clone" \in Range(issued))
                    <=> (~atStart[2] /\ exitOk["mkdir"] # "fail")))

C19_Witness ==
    /\ exitOk["clone"] = "fail"
    /\ syncRes = "None"
    /\ dirExists
    /\ gitExists
    /\ pc = "exit"

\* C20: once update_submodules has returned, every line the child wrote has
\* been taken by its reader: nothing is left in either pipe.
C20_RelaysDoneAtReturn ==
    pollRes # "none" => (outPipe = <<>> /\ errPipe = <<>>)

====
